---------------------------- MODULE Spec2Model ----------------------------
(* A model of tkloud's form (src/app.pyw): the field validators, the Image *)
(* configuration record, the Form's getters and its three handlers.        *)
(*                                                                         *)
(* A Python str is a sequence of one-character strings, so that strip,     *)
(* split, basename, isspace and int are computed and not assumed.  Names   *)
(* of the source that start with an underscore lose it.                    *)
EXTENDS Integers, Sequences, FiniteSets, TLC

VARIABLES
    textual_content_field,   \* content of the Text widget
    width_field,             \* content of the width Spinbox
    height_field,            \* content of the height Spinbox
    max_words_field,         \* content of the max words Spinbox
    background_color_field,  \* "", None or the colour last picked
    colormap_field,          \* the Combobox's selected entry
    stopwords_field,         \* content of the stopwords Text widget
    file_path_field,         \* value of the StringVar holding the save path
    handler,                 \* the handler that ran last
    image,                   \* what _build_image_object gave the last handler
    wordcloud,               \* arguments of the WordCloud call of the last handler
    written,                 \* path handed to to_file by the last handler
    shown,                   \* message boxes shown by the last handler
    escaped,                 \* exception that left the last handler
    color_dialog,            \* what the latest askcolor call returned
    save_dialog,             \* what the latest asksaveasfilename call returned
    generated_since,         \* an image was saved after the latest save dialog
    fn,                      \* function applied (specification of the functions)
    arg,                     \* its argument
    ret                      \* its result

fields == <<textual_content_field, width_field, height_field, max_words_field,
            background_color_field, colormap_field, stopwords_field,
            file_path_field>>
outputs == <<handler, image, wordcloud, written, shown, escaped>>
dialogs == <<color_dialog, save_dialog, generated_since>>
call == <<fn, arg, ret>>
vars == <<fields, outputs, dialogs, call>>

---------------------------------------------------------------------------
(* Bounds of the model *)

MaxDigits == 4          \* length of the raw strings given to the int validators
MaxPathLen == 3         \* length of the paths given to validate_file_path
MaxTextLen == 3         \* length of the raw text contents
MaxStopLen == 3         \* length of the raw stopwords texts
MaxColormapIndex == 3   \* entries of the palette the user selects among

---------------------------------------------------------------------------
(* Program constants *)

MIN_WIDTH_IMAGE == 400
MAX_WIDTH_IMAGE == 3000
MIN_HEIGHT_IMAGE == 200
MAX_HEIGHT_IMAGE == 1500
MIN_NUM_WORDS == 200
MAX_NUM_WORDS == 400

colormap_values ==
    <<"Accent", "Accent_r", "Blues", "Blues_r", "BrBG", "BrBG_r", "BuGn",
      "BuGn_r", "BuPu", "BuPu_r", "CMRmap", "CMRmap_r", "Dark2", "Dark2_r",
      "GnBu", "GnBu_r", "Greens", "Greens_r", "Greys", "Greys_r", "OrRd",
      "OrRd_r", "Oranges", "Oranges_r", "PRGn", "PRGn_r", "Paired",
      "Paired_r", "Pastel1", "Pastel1_r", "Pastel2", "Pastel2_r", "PiYG",
      "PiYG_r", "PuBu", "PuBuGn", "PuBuGn_r", "PuBu_r", "PuOr", "PuOr_r",
      "PuRd", "PuRd_r", "Purples", "Purples_r", "RdBu", "RdBu_r", "RdGy",
      "RdGy_r", "RdPu", "RdPu_r", "RdYlBu", "RdYlBu_r", "RdYlGn", "RdYlGn_r",
      "Reds", "Reds_r", "Set1", "Set1_r", "Set2", "Set2_r", "Set3", "Set3_r",
      "Spectral", "Spectral_r", "Wistia", "Wistia_r", "YlGn", "YlGnBu",
      "YlGnBu_r", "YlGn_r", "YlOrBr", "YlOrBr_r", "YlOrRd", "YlOrRd_r",
      "afmhot", "afmhot_r", "autumn", "autumn_r", "binary", "binary_r",
      "bone", "bone_r", "brg", "brg_r", "bwr", "bwr_r", "cividis",
      "cividis_r", "cool", "cool_r", "coolwarm", "coolwarm_r", "copper",
      "copper_r", "cubehelix", "cubehelix_r", "flag", "flag_r", "gist_earth",
      "gist_earth_r", "gist_gray", "gist_gray_r", "gist_heat", "gist_heat_r",
      "gist_ncar", "gist_ncar_r", "gist_rainbow", "gist_rainbow_r",
      "gist_stern", "gist_stern_r", "gist_yarg", "gist_yarg_r", "gnuplot",
      "gnuplot2", "gnuplot2_r", "gnuplot_r", "gray", "gray_r", "hot", "hot_r",
      "hsv", "hsv_r", "inferno", "inferno_r", "jet", "jet_r", "magma",
      "magma_r", "nipy_spectral", "nipy_spectral_r", "ocean", "ocean_r",
      "pink", "pink_r", "plasma", "plasma_r", "prism", "prism_r", "rainbow",
      "rainbow_r", "seismic", "seismic_r", "spring", "spring_r", "summer",
      "summer_r", "tab10", "tab10_r", "tab20", "tab20_r", "tab20b",
      "tab20b_r", "tab20c", "tab20c_r", "terrain", "terrain_r", "turbo",
      "turbo_r", "twilight", "twilight_r", "twilight_shifted",
      "twilight_shifted_r", "viridis", "viridis_r", "winter", "winter_r">>

---------------------------------------------------------------------------
(* Python values *)

\* None, where the other values are atoms (colours)
None == "None"

\* Optional[Set[str]]: None, or a set
NoneSet == [none |-> TRUE]
SetOf(s) == [set |-> s]

\* A call either returns a value or raises
Return(v) == [kind |-> "return", value |-> v]
FormException(msg) == [kind |-> "FormException", msg |-> msg]
ValueError == [kind |-> "ValueError"]
TypeError == [kind |-> "TypeError"]
Raised(r) == r.kind # "return"

---------------------------------------------------------------------------
(* Python's str methods and int() *)

Whitespace == {" ", "\t", "\n", "\r"}
Digits == {"0", "1", "2", "3", "4", "5", "6", "7", "8", "9"}

RECURSIVE lstrip(_)
lstrip(s) ==
    IF s # <<>> /\ Head(s) \in Whitespace THEN lstrip(Tail(s)) ELSE s

RECURSIVE rstrip(_)
rstrip(s) ==
    IF s # <<>> /\ s[Len(s)] \in Whitespace
    THEN rstrip(SubSeq(s, 1, Len(s) - 1))
    ELSE s

strip(s) == rstrip(lstrip(s))

isspace(s) == s # <<>> /\ \A i \in 1..Len(s) : s[i] \in Whitespace

RECURSIVE split(_, _)
split(s, sep) ==
    IF \E i \in 1..Len(s) : s[i] = sep
    THEN LET i == CHOOSE k \in 1..Len(s) :
                      s[k] = sep /\ \A j \in 1..(k - 1) : s[j] # sep
         IN  <<SubSeq(s, 1, i - 1)>> \o split(SubSeq(s, i + 1, Len(s)), sep)
    ELSE <<s>>

\* posixpath.basename: what follows the last "/"
basename(p) ==
    LET slashes == {k \in 1..Len(p) : p[k] = "/"}
        i == IF slashes = {} THEN 0
             ELSE CHOOSE k \in slashes : \A j \in slashes : j <= k
    IN  SubSeq(p, i + 1, Len(p))

DigitValue(c) ==
    CASE c = "0" -> 0 [] c = "1" -> 1 [] c = "2" -> 2 [] c = "3" -> 3
      [] c = "4" -> 4 [] c = "5" -> 5 [] c = "6" -> 6 [] c = "7" -> 7
      [] c = "8" -> 8 [] c = "9" -> 9

DigitChar(d) ==
    CASE d = 0 -> "0" [] d = 1 -> "1" [] d = 2 -> "2" [] d = 3 -> "3"
      [] d = 4 -> "4" [] d = 5 -> "5" [] d = 6 -> "6" [] d = 7 -> "7"
      [] d = 8 -> "8" [] d = 9 -> "9"

\* value of a run of digits in which single underscores may separate digits
RECURSIVE DigitsValue(_, _)
DigitsValue(s, acc) ==
    IF s = <<>> THEN acc
    ELSE IF Head(s) = "_" THEN DigitsValue(Tail(s), acc)
    ELSE DigitsValue(Tail(s), 10 * acc + DigitValue(Head(s)))

\* int(str): surrounding whitespace is dropped, one sign is allowed, then
\* digits, with single underscores between digits; anything else raises
int(raw) ==
    LET s == strip(raw)
        signed == s # <<>> /\ Head(s) \in {"+", "-"}
        body == IF signed THEN Tail(s) ELSE s
        wellFormed ==
            /\ body # <<>>
            /\ \A i \in 1..Len(body) : body[i] \in Digits \cup {"_"}
            /\ body[1] # "_"
            /\ body[Len(body)] # "_"
            /\ \A i \in 1..(Len(body) - 1) : ~(body[i] = "_" /\ body[i + 1] = "_")
        magnitude == DigitsValue(body, 0)
    IN  IF ~wellFormed THEN ValueError
        ELSE Return(IF signed /\ Head(s) = "-" THEN 0 - magnitude ELSE magnitude)

\* str(int) of a natural number
RECURSIVE str(_)
str(n) ==
    IF n < 10 THEN <<DigitChar(n)>>
    ELSE str(n \div 10) \o <<DigitChar(n % 10)>>

---------------------------------------------------------------------------
(* FieldUtils *)

\* get_text_value as it would be without the strip
get_text_value_unstripped(field) == field \o <<"\n">>

\* Text.get("1.0", END) is the content followed by a newline
get_text_value(field) == strip(field \o <<"\n">>)

get_box_value(field) == strip(field)

---------------------------------------------------------------------------
(* FieldsValidator *)

validate_text_content(textual_content) ==
    IF textual_content = <<>> \/ textual_content = <<"\n">>
    THEN FormException("Textual content cannot be empty.")
    ELSE Return(None)

\* validate_width as it would be with the bounds excluded
validate_width_exclusive(width) ==
    IF width = <<>> THEN FormException("Width cannot be empty.")
    ELSE LET w == int(width) IN
         IF Raised(w) THEN w
         ELSE IF w.value <= 0
              THEN FormException("Width cannot be less equal to zero.")
         ELSE IF w.value <= MIN_WIDTH_IMAGE \/ w.value >= MAX_WIDTH_IMAGE
              THEN FormException("Width needs to be between 400 and 3000.")
         ELSE Return(None)

validate_width(width) ==
    IF width = <<>> THEN FormException("Width cannot be empty.")
    ELSE LET w == int(width) IN
         IF Raised(w) THEN w
         ELSE IF w.value <= 0
              THEN FormException("Width cannot be less equal to zero.")
         ELSE IF w.value < MIN_WIDTH_IMAGE \/ w.value > MAX_WIDTH_IMAGE
              THEN FormException("Width needs to be between 400 and 3000.")
         ELSE Return(None)

validate_height(height) ==
    IF height = <<>> THEN FormException("Height cannot be empty.")
    ELSE LET h == int(height) IN
         IF Raised(h) THEN h
         ELSE IF h.value <= 0
              THEN FormException("Height cannot be less equal to zero.")
         ELSE IF h.value < MIN_HEIGHT_IMAGE \/ h.value > MAX_HEIGHT_IMAGE
              THEN FormException("Height needs to be between 200 and 1500.")
         ELSE Return(None)

validate_max_words(max_words) ==
    IF max_words = <<>> THEN FormException("Max Words cannot be empty.")
    ELSE LET m == int(max_words) IN
         IF Raised(m) THEN m
         ELSE IF m.value <= 0
              THEN FormException("Max Words cannot be less equal to zero.")
         ELSE IF m.value < MIN_NUM_WORDS \/ m.value > MAX_NUM_WORDS
              THEN FormException("Max words needs to be between 200 and 400.")
         ELSE Return(None)

validate_file_path(file_path) ==
    IF file_path = <<>> \/ isspace(split(basename(file_path), ".")[1])
    THEN FormException("File name cannot be empty.")
    ELSE Return(None)

---------------------------------------------------------------------------
(* Image: the dataclass.  args holds the arguments given; an argument that *)
(* has a default may be left out.                                          *)

post_init(self) ==
    IF self.background_color = None
    THEN [self EXCEPT !.background_color = "black"]
    ELSE self

\* The generated __init__ calls a default_factory for a field left out:
\* colormap's is the str "Accent", and calling it raises TypeError.
Image(args) ==
    IF "colormap" \notin DOMAIN args THEN TypeError
    ELSE Return(post_init(
             [textual_content |-> args.textual_content,
              width |-> args.width,
              height |-> args.height,
              max_words |-> args.max_words,
              background_color |-> args.background_color,
              colormap |-> args.colormap,
              stopwords |-> IF "stopwords" \in DOMAIN args
                            THEN args.stopwords ELSE SetOf({}),
              file_path |-> IF "file_path" \in DOMAIN args
                            THEN args.file_path ELSE <<>>]))

---------------------------------------------------------------------------
(* Form: the getters.  self is the record of the form's fields.            *)

Self ==
    [textual_content_field |-> textual_content_field,
     width_field |-> width_field,
     height_field |-> height_field,
     max_words_field |-> max_words_field,
     background_color_field |-> background_color_field,
     colormap_field |-> colormap_field,
     stopwords_field |-> stopwords_field,
     file_path_field |-> file_path_field]

get_textual_content(self) ==
    LET textual_content == get_text_value(self.textual_content_field)
        v == validate_text_content(textual_content)
    IN  IF Raised(v) THEN v ELSE Return(textual_content)

get_dimensions(self) ==
    LET width == get_box_value(self.width_field)
        height == get_box_value(self.height_field)
        vw == validate_width(width)
        vh == validate_height(height)
    IN  IF Raised(vw) THEN vw
        ELSE IF Raised(vh) THEN vh
        ELSE Return(<<int(width).value, int(height).value>>)

get_max_words(self) ==
    LET max_words == get_box_value(self.max_words_field)
        v == validate_max_words(max_words)
    IN  IF Raised(v) THEN v ELSE Return(int(max_words).value)

get_background_color(self) ==
    IF self.background_color_field \notin {"", None}
    THEN self.background_color_field
    ELSE None

\* The Combobox is read-only: its value is an entry of colormap_values,
\* none of which has whitespace for get_box_value to strip.
get_colormap(self) == self.colormap_field

get_stopwords(self) ==
    LET stopword_values == get_text_value(self.stopwords_field)
        words == split(stopword_values, ",")
    IN  IF stopword_values # <<>>
        THEN SetOf({strip(words[i]) : i \in 1..Len(words)} \ {<<>>})
        ELSE NoneSet

get_file_path(self) ==
    LET file_path == self.file_path_field
        v == validate_file_path(file_path)
    IN  IF Raised(v) THEN v ELSE Return(file_path)

build_image_object(self) ==
    LET textual_content == get_textual_content(self)
        dimensions == get_dimensions(self)
        max_words == get_max_words(self)
        file_path == get_file_path(self)
    IN  IF Raised(textual_content) THEN textual_content
        ELSE IF Raised(dimensions) THEN dimensions
        ELSE IF Raised(max_words) THEN max_words
        ELSE IF Raised(file_path) THEN file_path
        ELSE Image([textual_content |-> textual_content.value,
                    width |-> dimensions.value[1],
                    height |-> dimensions.value[2],
                    max_words |-> max_words.value,
                    background_color |-> get_background_color(self),
                    colormap |-> get_colormap(self),
                    stopwords |-> get_stopwords(self),
                    file_path |-> file_path.value])

\* reset_file_path as it would be if it left the path in place
reset_file_path_keeps(self) == self.file_path_field

\* StringVar(): a new variable, whose value is the empty string
reset_file_path(self) == <<>>

---------------------------------------------------------------------------
(* What a handler leaves behind *)

NoImage == [kind |-> "none"]
NotCalled == [called |-> FALSE]
NotWritten == [to_file |-> FALSE]
NoDialog == [called |-> FALSE]

WordCloud(im) ==
    [called |-> TRUE,
     width |-> im.width,
     height |-> im.height,
     random_state |-> 1,
     background_color |-> im.background_color,
     colormap |-> im.colormap,
     collocations |-> FALSE,
     max_words |-> im.max_words,
     stopwords |-> im.stopwords,
     text |-> im.textual_content]

to_file(file_path) == [to_file |-> TRUE, path |-> file_path]

showerror(title, message) ==
    [box |-> "showerror", title |-> title, message |-> message]

showinfo(title, message) ==
    [box |-> "showinfo", title |-> title, message |-> message]

success_message(file_path) ==
    <<"Your Word Cloud has been successfully generated. You can find it on the path below:\n\n">>
        \o file_path

---------------------------------------------------------------------------
(* What the user and the dialogs may give *)

Strings(chars, n) == UNION {[1..k -> chars] : k \in 0..n}

TextInputs == {<<>>, <<" ">>, <<"a">>}
WidthInputs == {str(MIN_WIDTH_IMAGE), <<"1", "5", "0">>, <<"a">>, <<>>}
HeightInputs == {str(MIN_HEIGHT_IMAGE), <<"1", "5", "0", "1">>, <<"a">>}
MaxWordsInputs == {str(MIN_NUM_WORDS), <<"4", "0", "1">>, <<"a">>}
StopwordsExample == <<"a", ",", " ", "b", " ", ",", ",", " ", "c">>
StopwordsInputs == {<<>>, <<",">>, StopwordsExample}

\* askcolor returns (rgb, hex), and (None, None) when cancelled
AskcolorResults ==
    {<<None, None>>, <<"(255, 0, 0)", "#ff0000">>, <<"(0, 0, 255)", "#0000ff">>}

\* asksaveasfilename returns the path, and "" when cancelled
AsksaveasfilenameResults ==
    {<<>>, <<"/", "a", ".", "p">>, <<"/", " ", ".", "p">>, <<"/", ".", "p">>}

\* WordCloud.generate or to_file may raise
LibraryOutcomes == {"ok", "generate raises", "to_file raises"}

---------------------------------------------------------------------------
(* Form: the state after __init__ and build *)

InitFields ==
    /\ textual_content_field = <<>>
    /\ width_field = str(MIN_WIDTH_IMAGE)
    /\ height_field = str(MIN_HEIGHT_IMAGE)
    /\ max_words_field = str(MIN_NUM_WORDS)
    /\ background_color_field = ""
    /\ colormap_field = colormap_values[1]
    /\ stopwords_field = <<>>
    /\ file_path_field = <<>>

InitOutputs ==
    /\ handler = "build"
    /\ image = NoImage
    /\ wordcloud = NotCalled
    /\ written = NotWritten
    /\ shown = <<>>
    /\ escaped = "none"

InitDialogs ==
    /\ color_dialog = NoDialog
    /\ save_dialog = NoDialog
    /\ generated_since = FALSE

Init ==
    /\ InitFields
    /\ InitOutputs
    /\ InitDialogs
    /\ fn = "none"
    /\ arg = [type |-> "none"]
    /\ ret = [kind |-> "none"]

\* a handler that builds no image, calls no generator and shows nothing
Quiet(name) ==
    /\ handler' = name
    /\ image' = NoImage
    /\ wordcloud' = NotCalled
    /\ written' = NotWritten
    /\ shown' = <<>>
    /\ escaped' = "none"

---------------------------------------------------------------------------
(* The user edits a widget *)

EditTextualContent ==
    /\ \E v \in TextInputs : textual_content_field' = v
    /\ Quiet("edit")
    /\ UNCHANGED <<width_field, height_field, max_words_field,
                   background_color_field, colormap_field, stopwords_field,
                   file_path_field, dialogs, call>>

EditWidth ==
    /\ \E v \in WidthInputs : width_field' = v
    /\ Quiet("edit")
    /\ UNCHANGED <<textual_content_field, height_field, max_words_field,
                   background_color_field, colormap_field, stopwords_field,
                   file_path_field, dialogs, call>>

EditHeight ==
    /\ \E v \in HeightInputs : height_field' = v
    /\ Quiet("edit")
    /\ UNCHANGED <<textual_content_field, width_field, max_words_field,
                   background_color_field, colormap_field, stopwords_field,
                   file_path_field, dialogs, call>>

EditMaxWords ==
    /\ \E v \in MaxWordsInputs : max_words_field' = v
    /\ Quiet("edit")
    /\ UNCHANGED <<textual_content_field, width_field, height_field,
                   background_color_field, colormap_field, stopwords_field,
                   file_path_field, dialogs, call>>

SelectColormap ==
    /\ \E i \in 1..MaxColormapIndex : colormap_field' = colormap_values[i]
    /\ Quiet("edit")
    /\ UNCHANGED <<textual_content_field, width_field, height_field,
                   max_words_field, background_color_field, stopwords_field,
                   file_path_field, dialogs, call>>

EditStopwords ==
    /\ \E v \in StopwordsInputs : stopwords_field' = v
    /\ Quiet("edit")
    /\ UNCHANGED <<textual_content_field, width_field, height_field,
                   max_words_field, background_color_field, colormap_field,
                   file_path_field, dialogs, call>>

---------------------------------------------------------------------------
(* Form: the handlers of the three buttons *)

\* background_colorpicker as it would be if a cancelled dialog kept the colour
background_colorpicker_keeps ==
    /\ \E colors \in AskcolorResults :
          /\ color_dialog' = [called |-> TRUE, colors |-> colors]
          /\ background_color_field' =
                 IF colors[2] = None THEN background_color_field ELSE colors[2]
    /\ Quiet("background_colorpicker")
    /\ UNCHANGED <<textual_content_field, width_field, height_field,
                   max_words_field, colormap_field, stopwords_field,
                   file_path_field, save_dialog, generated_since, call>>

background_colorpicker ==
    /\ \E colors \in AskcolorResults :
          /\ color_dialog' = [called |-> TRUE, colors |-> colors]
          /\ background_color_field' = colors[2]
    /\ Quiet("background_colorpicker")
    /\ UNCHANGED <<textual_content_field, width_field, height_field,
                   max_words_field, colormap_field, stopwords_field,
                   file_path_field, save_dialog, generated_since, call>>

\* ask_saveas_file_name as it would be if a cancelled dialog kept the path
ask_saveas_file_name_keeps ==
    /\ \E path \in AsksaveasfilenameResults :
          /\ save_dialog' = [called |-> TRUE, path |-> path]
          /\ file_path_field' = IF path = <<>> THEN file_path_field ELSE path
    /\ generated_since' = FALSE
    /\ Quiet("ask_saveas_file_name")
    /\ UNCHANGED <<textual_content_field, width_field, height_field,
                   max_words_field, background_color_field, colormap_field,
                   stopwords_field, color_dialog, call>>

ask_saveas_file_name ==
    /\ \E path \in AsksaveasfilenameResults :
          /\ save_dialog' = [called |-> TRUE, path |-> path]
          /\ file_path_field' = path
    /\ generated_since' = FALSE
    /\ Quiet("ask_saveas_file_name")
    /\ UNCHANGED <<textual_content_field, width_field, height_field,
                   max_words_field, background_color_field, colormap_field,
                   stopwords_field, color_dialog, call>>

generate_word_cloud_image ==
    /\ handler' = "generate_word_cloud_image"
    /\ image' = build_image_object(Self)
    /\ \E library \in LibraryOutcomes :
          IF image'.kind = "FormException"
          THEN \* except FormException as e: messagebox.showerror("error", e)
               /\ wordcloud' = NotCalled
               /\ written' = NotWritten
               /\ shown' = <<showerror("error", image'.msg)>>
               /\ escaped' = "none"
               /\ UNCHANGED <<file_path_field, generated_since>>
          ELSE IF Raised(image')
          THEN \* no except clause names it: it leaves the handler
               /\ wordcloud' = NotCalled
               /\ written' = NotWritten
               /\ shown' = <<>>
               /\ escaped' = image'.kind
               /\ UNCHANGED <<file_path_field, generated_since>>
          ELSE /\ wordcloud' = WordCloud(image'.value)
               /\ IF library = "ok"
                  THEN /\ written' = to_file(image'.value.file_path)
                       /\ file_path_field' = reset_file_path(Self)
                       /\ generated_since' = TRUE
                       /\ shown' = <<showinfo("Success",
                                       success_message(image'.value.file_path))>>
                       /\ escaped' = "none"
                  ELSE /\ written' = NotWritten
                       /\ shown' = <<>>
                       /\ escaped' = library
                       /\ UNCHANGED <<file_path_field, generated_since>>
    /\ UNCHANGED <<textual_content_field, width_field, height_field,
                   max_words_field, background_color_field, colormap_field,
                   stopwords_field, color_dialog, save_dialog, call>>

Next ==
    \/ EditTextualContent
    \/ EditWidth
    \/ EditHeight
    \/ EditMaxWords
    \/ SelectColormap
    \/ EditStopwords
    \/ background_colorpicker
    \/ ask_saveas_file_name
    \/ generate_word_cloud_image

Spec == Init /\ [][Next]_vars

---------------------------------------------------------------------------
(* The functions on their own: one argument, drawn from a bounded set, and *)
(* one application of the function the argument is for.                    *)

IntChars == {"0", "1", "2", "3", "4", "5", "9", "-", "a"}
PathChars == {"/", ".", " ", "a"}
TextChars == {" ", "\n", "\t", "a"}
StopChars == {"a", "b", ",", " "}

\* a form whose every field passes validation
ValidSelf ==
    [textual_content_field |-> <<"a">>,
     width_field |-> str(MIN_WIDTH_IMAGE),
     height_field |-> str(MIN_HEIGHT_IMAGE),
     max_words_field |-> str(MIN_NUM_WORDS),
     background_color_field |-> "",
     colormap_field |-> colormap_values[1],
     stopwords_field |-> <<>>,
     file_path_field |-> <<"/", "a", ".", "p">>]

IntArgs == {[type |-> "int", value |-> s] : s \in Strings(IntChars, MaxDigits)}

PathArgs == {[type |-> "path", value |-> s] : s \in Strings(PathChars, MaxPathLen)}

TextArgs ==
    {[type |-> "text", value |-> [ValidSelf EXCEPT !.textual_content_field = s]] :
        s \in Strings(TextChars, MaxTextLen)}

StopwordsArgs ==
    {[type |-> "stopwords", value |-> [ValidSelf EXCEPT !.stopwords_field = s]] :
        s \in Strings(StopChars, MaxStopLen) \cup {StopwordsExample}}

\* the arguments of Image(...): the five without a default, then any prefix
\* of colormap, stopwords, file_path
ImageRequired ==
    {[textual_content |-> <<"a">>, width |-> MIN_WIDTH_IMAGE,
      height |-> MIN_HEIGHT_IMAGE, max_words |-> MIN_NUM_WORDS,
      background_color |-> b] : b \in {None, "#ff0000"}}

WithColormap(a, c) ==
    [textual_content |-> a.textual_content, width |-> a.width,
     height |-> a.height, max_words |-> a.max_words,
     background_color |-> a.background_color, colormap |-> c]

WithStopwords(a, c, w) ==
    [textual_content |-> a.textual_content, width |-> a.width,
     height |-> a.height, max_words |-> a.max_words,
     background_color |-> a.background_color, colormap |-> c,
     stopwords |-> w]

ImageArgs ==
    {[type |-> "Image", value |-> a] : a \in ImageRequired}
    \cup {[type |-> "Image", value |-> WithColormap(a, colormap_values[i])] :
             a \in ImageRequired, i \in 1..MaxColormapIndex}
    \cup {[type |-> "Image", value |-> WithStopwords(a, colormap_values[i], w)] :
             a \in ImageRequired, i \in 1..MaxColormapIndex,
             w \in {NoneSet, SetOf({<<"a">>})}}

InitFn ==
    /\ InitFields
    /\ InitOutputs
    /\ InitDialogs
    /\ fn = "none"
    /\ \/ arg \in IntArgs
       \/ arg \in PathArgs
       \/ arg \in TextArgs
       \/ arg \in StopwordsArgs
       \/ arg \in ImageArgs
    /\ ret = [kind |-> "none"]

Apply(name, result) ==
    /\ fn = "none"
    /\ fn' = name
    /\ ret' = result
    /\ UNCHANGED <<arg, fields, outputs, dialogs>>

call_validate_width ==
    arg.type = "int" /\ Apply("validate_width", validate_width(arg.value))

call_validate_height ==
    arg.type = "int" /\ Apply("validate_height", validate_height(arg.value))

call_validate_max_words ==
    arg.type = "int" /\ Apply("validate_max_words", validate_max_words(arg.value))

call_validate_file_path ==
    arg.type = "path" /\ Apply("validate_file_path", validate_file_path(arg.value))

call_get_textual_content ==
    arg.type = "text" /\ Apply("get_textual_content", get_textual_content(arg.value))

call_build_image_object ==
    arg.type = "stopwords" /\ Apply("build_image_object", build_image_object(arg.value))

call_Image ==
    arg.type = "Image" /\ Apply("Image", Image(arg.value))

NextFn ==
    \/ call_validate_width
    \/ call_validate_height
    \/ call_validate_max_words
    \/ call_validate_file_path
    \/ call_get_textual_content
    \/ call_build_image_object
    \/ call_Image

SpecFn == InitFn /\ [][NextFn]_vars

---------------------------------------------------------------------------
(* Properties *)

Generated == handler = "generate_word_cloud_image"

Succeeded ==
    /\ Generated
    /\ escaped = "none"
    /\ Len(shown) = 1
    /\ shown[1].box = "showinfo"

FileNameError == <<showerror("error", "File name cannot be empty.")>>

\* every character is whitespace (the empty string included)
Blank(s) == \A i \in 1..Len(s) : s[i] \in Whitespace

\* sub occurs in s
Contains(s, sub) ==
    \E i \in 1..(Len(s) - Len(sub) + 1) : SubSeq(s, i, i + Len(sub) - 1) = sub

\* C1: a Generate in which a field validation fails (the build raises) shows
\* exactly one error report, with the failure's message, builds no
\* configuration, calls no generator, writes no file and leaves every field
\* (save path and background colour included) as it was.
C1_FailedValidationReportsOnce ==
    [][(handler' = "generate_word_cloud_image" /\ Raised(build_image_object(Self)))
         => /\ Len(shown') = 1
            /\ shown'[1].box = "showerror"
            /\ build_image_object(Self).kind = "FormException"
                  => shown'[1].message = build_image_object(Self).msg
            /\ image'.kind # "return"
            /\ wordcloud' = NotCalled
            /\ written' = NotWritten
            /\ UNCHANGED fields]_vars

\* no confirmed save dialog since the start or since the last saved image
StalePath ==
    \/ ~save_dialog.called
    \/ save_dialog.path = <<>>
    \/ generated_since

\* C2: a Generate that succeeds has written the image to the path stored when
\* it was pressed, leaves the stored path empty and shows a success message
\* that contains the written path; a Generate with no confirmed save dialog
\* since then calls no generator, writes nothing, and the stored path fails
\* validate_file_path.
C2_SuccessClearsSavePath ==
    [][/\ Succeeded'
          => /\ wordcloud'.called
             /\ written' = to_file(file_path_field)
             /\ file_path_field # <<>>
             /\ file_path_field' = <<>>
             /\ Contains(shown'[1].message, file_path_field)
       /\ (handler' = "generate_word_cloud_image" /\ StalePath)
          => /\ wordcloud' = NotCalled
             /\ written' = NotWritten
             /\ validate_file_path(file_path_field).kind = "FormException"]_vars

\* a Generate after an image was saved, with no save dialog in between, with
\* every other field valid: it fails on the file path
C2_Witness ==
    /\ Generated
    /\ generated_since
    /\ save_dialog.called
    /\ save_dialog.path # <<>>
    /\ shown = FileNameError
    /\ wordcloud = NotCalled

\* has a character that no integer literal has
NonNumeric(raw) ==
    \E i \in 1..Len(strip(raw)) : strip(raw)[i] \notin Digits \cup {"+", "-", "_"}

\* C3: when the width, height or max words field holds a non-numeric value,
\* Generate fails with a FormException, which the handler catches and shows
\* as an error report; no other exception leaves the handler.
C3_NonNumericIsValidationError ==
    (Generated /\ (\/ NonNumeric(width_field)
                   \/ NonNumeric(height_field)
                   \/ NonNumeric(max_words_field)))
        => /\ image.kind = "FormException"
           /\ escaped = "none"
           /\ Len(shown) = 1
           /\ shown[1].box = "showerror"

\* an optional "-", then digits
IsDecimal(s) ==
    LET body == IF s # <<>> /\ Head(s) = "-" THEN Tail(s) ELSE s
    IN  body # <<>> /\ \A i \in 1..Len(body) : body[i] \in Digits

RECURSIVE NaturalOf(_)
NaturalOf(s) ==
    IF s = <<>> THEN 0
    ELSE 10 * NaturalOf(SubSeq(s, 1, Len(s) - 1)) + DigitValue(s[Len(s)])

DecimalValue(s) ==
    IF Head(s) = "-" THEN 0 - NaturalOf(Tail(s)) ELSE NaturalOf(s)

\* C4: for an integer w given as a decimal string, validate_width returns iff
\* 400 <= w <= 3000, validate_height iff 200 <= w <= 1500, validate_max_words
\* iff 200 <= w <= 400; every other integer and the empty string raise
\* FormException.
C4_RangesInclusive ==
    /\ (fn = "validate_width" /\ IsDecimal(arg.value))
          => /\ ret.kind = "return"
                   <=> (400 <= DecimalValue(arg.value) /\ DecimalValue(arg.value) <= 3000)
             /\ ret.kind \in {"return", "FormException"}
    /\ (fn = "validate_height" /\ IsDecimal(arg.value))
          => /\ ret.kind = "return"
                   <=> (200 <= DecimalValue(arg.value) /\ DecimalValue(arg.value) <= 1500)
             /\ ret.kind \in {"return", "FormException"}
    /\ (fn = "validate_max_words" /\ IsDecimal(arg.value))
          => /\ ret.kind = "return"
                   <=> (200 <= DecimalValue(arg.value) /\ DecimalValue(arg.value) <= 400)
             /\ ret.kind \in {"return", "FormException"}
    /\ (fn \in {"validate_width", "validate_height", "validate_max_words"}
           /\ arg.value = <<>>)
          => ret.kind = "FormException"

\* the upper bound of the width is accepted
C4_Witness ==
    /\ fn = "validate_width"
    /\ arg.value = <<"3", "0", "0", "0">>
    /\ ret.kind = "return"

\* the base name without its extension: up to the last "." of the base name
Stem(p) ==
    LET b == basename(p)
        dots == {k \in 1..Len(b) : b[k] = "."}
    IN  IF dots = {} THEN b
        ELSE SubSeq(b, 1, (CHOOSE k \in dots : \A j \in dots : j <= k) - 1)

\* C5: validate_file_path raises FormException for every path that is empty
\* or whose base name without its extension is empty or only whitespace.
C5_BlankFileNameFails ==
    (fn = "validate_file_path" /\ (arg.value = <<>> \/ Blank(Stem(arg.value))))
        => ret.kind = "FormException"

\* split on commas, trim each token, drop the empty ones
ExpectedStopwords(text) ==
    LET tokens == split(text, ",")
    IN  {strip(tokens[i]) : i \in 1..Len(tokens)} \ {<<>>}

\* C6: the stopwords of the configuration a submission builds are the set of
\* the trimmed, non-empty, comma-separated tokens of the stopwords text, and
\* the empty set when the text is empty.
C6_StopwordsOfConfiguration ==
    (fn = "build_image_object" /\ ret.kind = "return")
        => ret.value.stopwords = SetOf(ExpectedStopwords(arg.value.stopwords_field))

\* C7: reading and validating the text content raises FormException for every
\* content that is empty or only whitespace (a bare newline included), and
\* returns for every content that has a character other than whitespace.
C7_TextContent ==
    fn = "get_textual_content"
        => /\ Blank(arg.value.textual_content_field)
                 => ret = FormException("Textual content cannot be empty.")
           /\ ~Blank(arg.value.textual_content_field)
                 => ret.kind = "return"

\* a content of spaces only is refused
C7_Witness ==
    /\ fn = "get_textual_content"
    /\ arg.value.textual_content_field = <<" ", " ">>
    /\ ret.kind = "FormException"

\* "black" when askcolor was never called or its latest call was cancelled,
\* else the colour of its latest call
ExpectedBackground ==
    IF ~color_dialog.called \/ color_dialog.colors[2] = None
    THEN "black"
    ELSE color_dialog.colors[2]

\* C8: the configuration a Generate builds, and the generator call made with
\* it, have background colour "black" when no colour was ever chosen or the
\* latest choice was cancelled, else the colour of the latest choice; never
\* None.
C8_BackgroundColor ==
    (Generated /\ image.kind = "return")
        => /\ image.value.background_color = ExpectedBackground
           /\ wordcloud.called
           /\ wordcloud.background_color = ExpectedBackground
           /\ wordcloud.background_color # None

\* an image is saved after a cancelled colour dialog
C8_Witness ==
    /\ Succeeded
    /\ color_dialog.called
    /\ color_dialog.colors[2] = None
    /\ wordcloud.background_color = "black"

\* the entries of the palette
Palette == {colormap_values[i] : i \in 1..Len(colormap_values)}

\* C9: a configuration constructed without a colormap argument has colormap
\* "Accent"; so has the one built from a form whose selection was never
\* changed; a colormap of a configuration is an entry of the palette.
C9_DefaultColormap ==
    /\ (fn = "Image" /\ "colormap" \notin DOMAIN arg.value)
          => (ret.kind = "return" /\ ret.value.colormap = "Accent")
    /\ (fn = "build_image_object" /\ ret.kind = "return")
          => ret.value.colormap = "Accent"
    /\ (fn \in {"Image", "build_image_object"} /\ ret.kind = "return")
          => ret.value.colormap \in Palette

\* the latest save dialog was cancelled
CancelledLast == save_dialog.called /\ save_dialog.path = <<>>

\* the text, the dimensions and the max words pass their validation
OtherFieldsPass ==
    /\ ~Raised(get_textual_content(Self))
    /\ ~Raised(get_dimensions(Self))
    /\ ~Raised(get_max_words(Self))

\* C10 as stated: the save dialog's result overwrites the stored path, and a
\* Generate after a cancelled save dialog that ends in a caught validation
\* error shows 'File name cannot be empty.' and calls no generator.
C10_CancelledAlwaysFileNameError ==
    [][/\ handler' = "ask_saveas_file_name"
          => file_path_field' = save_dialog'.path
       /\ (handler' = "generate_word_cloud_image" /\ CancelledLast
              /\ escaped' = "none")
          => /\ shown' = FileNameError
             /\ wordcloud' = NotCalled]_vars

\* C10, amended: the save dialog's result overwrites the stored path; a
\* Generate after a cancelled save dialog calls no generator and writes no
\* file, and when the text, width, height and max words pass validation it
\* shows 'File name cannot be empty.'.
C10_CancelledNeverGenerates ==
    [][/\ handler' = "ask_saveas_file_name"
          => file_path_field' = save_dialog'.path
       /\ (handler' = "generate_word_cloud_image" /\ CancelledLast)
          => /\ wordcloud' = NotCalled
             /\ written' = NotWritten
             /\ OtherFieldsPass
                   => (shown' = FileNameError /\ escaped' = "none")]_vars

\* a Generate after a cancelled save dialog shows the file name error
C10_Witness ==
    /\ Generated
    /\ CancelledLast
    /\ ~generated_since
    /\ shown = FileNameError

===========================================================================
